---- MODULE Spec2Model ----
(***************************************************************************)
(* Model of CarryingMap (carrying.py): the carrying data of a small train  *)
(* track carried on a large one, and the in-place operations on it.        *)
(*                                                                         *)
(* Array coordinates are 0-based as in the source.  Rows 0..nb-1 of        *)
(* train_paths / half_branch_map / hb_between_branches are branch paths,   *)
(* rows nb..nb+nc-1 are cusp paths (cusp_index_offset = nb).               *)
(*                                                                         *)
(* carrying.py is a draft: several names it uses are never bound           *)
(* (BRANCH, CUSP, min_path_idx, tt, branch, shortest_path, ...).  Where a  *)
(* statement only makes sense with an evident binding, the binding is      *)
(* stated in the comment of the definition that uses it.                   *)
(***************************************************************************)
EXTENDS Integers, Sequences, FiniteSets, TLC

VARIABLES tt, train_paths, half_branch_map, hb_between_branches,
          branch_to_cusp, last, pre, hist, steps

vars == <<tt, train_paths, half_branch_map, hb_between_branches,
          branch_to_cusp, last, pre, hist, steps>>

\* ---------------------------------------------------------------- bounds
MaxSteps == 2
MaxStepsHb == 3
MaxStepsId == 3
MaxVal == 1
MaxLen == 3
MaxValIso == 1
MaxStepsDel == 1
MaxValFail == 1
MaxStepsFail == 2

\* ------------------------------------------------------------- constants
START == 0
END == 1
BRANCH == "BRANCH"
CUSP == "CUSP"

Abs(x) == IF x < 0 THEN -x ELSE x

\* ------------------------------------------------- the small train track
\* The track abstraction the carrying map consumes: ordered outgoing
\* branches per oriented switch, cusp lookup table, classification.
CircleTT == [nb |-> 2, nc |-> 0, nsw |-> 2,
             out |-> [s \in {-2, -1, 1, 2} |->
                        CASE s = 1 -> <<1>> [] s = -2 -> <<-1>>
                          [] s = 2 -> <<2>> [] s = -1 -> <<-2>>],
             cusp |-> [b \in {-2, -1, 1, 2} |-> 0],
             collapsible |-> {},
             trivalent |-> FALSE]

LoopTT == [nb |-> 3, nc |-> 2, nsw |-> 2,
           out |-> [s \in {-2, -1, 1, 2} |->
                      CASE s = 1 -> <<1, 2>> [] s = -1 -> <<-1, -3>>
                        [] s = 2 -> <<-2>> [] s = -2 -> <<3>>],
           cusp |-> [b \in {-3, -2, -1, 1, 2, 3} |->
                       IF b = -1 THEN 1 ELSE 0],
           collapsible |-> {},
           trivalent |-> FALSE]

ThreeTT == [nb |-> 3, nc |-> 2, nsw |-> 2,
            out |-> [s \in {-2, -1, 1, 2} |->
                       CASE s = 1 -> <<1, 2, 3>> [] s = -1 -> <<-1>>
                         [] s = 2 -> <<-2>> [] s = -2 -> <<-3>>],
            cusp |-> [b \in {-3, -2, -1, 1, 2, 3} |->
                        IF b = 2 THEN 1 ELSE 0],
            collapsible |-> {},
            trivalent |-> FALSE]

ThetaTT == [nb |-> 3, nc |-> 2, nsw |-> 2,
            out |-> [s \in {-2, -1, 1, 2} |->
                       CASE s = 1 -> <<1, 2>> [] s = -1 -> <<3>>
                         [] s = 2 -> <<-1, -3>> [] s = -2 -> <<-2>>],
            cusp |-> [b \in {-3, -2, -1, 1, 2, 3} |->
                        IF b = -1 THEN 1 ELSE 0],
            collapsible |-> {1, 3},
            trivalent |-> TRUE]

TriTT == [nb |-> 3, nc |-> 0, nsw |-> 3,
          out |-> [s \in {-3, -2, -1, 1, 2, 3} |->
                     CASE s = 1 -> <<1>> [] s = -2 -> <<-1>>
                       [] s = 2 -> <<2>> [] s = -3 -> <<-2>>
                       [] s = 3 -> <<3>> [] s = -1 -> <<-3>>],
          cusp |-> [b \in {-3, -2, -1, 1, 2, 3} |-> 0],
          collapsible |-> {},
          trivalent |-> FALSE]

\* One switch: branch 1 from its positive to its negative side, branch 2
\* leaving and re-entering the negative side.
SelfLoopTT == [nb |-> 2, nc |-> 2, nsw |-> 1,
               out |-> [s \in {-1, 1} |->
                          IF s = 1 THEN <<1>> ELSE <<-1, 2, -2>>],
               cusp |-> [b \in {-2, -1, 1, 2} |-> IF b = 2 THEN 1 ELSE 0],
               collapsible |-> {},
               trivalent |-> FALSE]

Tracks == [t \in {"circle", "tri", "loop", "three", "theta", "selfloop"} |->
             CASE t = "circle" -> CircleTT [] t = "tri" -> TriTT
               [] t = "loop" -> LoopTT [] t = "selfloop" -> SelfLoopTT
               [] t = "three" -> ThreeTT [] t = "theta" -> ThetaTT]

T == Tracks[tt]
NB == T.nb
NR == T.nb + T.nc
Rows == 0 .. (NR - 1)
\* l, the number of branches of the large track
Cols == DOMAIN train_paths[0]
Sides == {START, END}
SignedBranches == {b \in (-NB) .. NB : b # 0}
SignedCusps == {c \in (-T.nc) .. T.nc : c # 0}
Switches == {s \in (-T.nsw) .. T.nsw : s # 0}

outgoing_branches(sw) == T.out[sw]
num_outgoing_branches(sw) == Len(T.out[sw])
outgoing_branch(sw, pos) == T.out[sw][pos + 1]
branch_endpoint(b) ==
    CHOOSE s \in Switches : \E i \in 1 .. Len(T.out[s]) : T.out[s][i] = -b
to_index(x) == IF x > 0 THEN <<0, x - 1>> ELSE <<1, (-x) - 1>>
is_branch(p) == Abs(p) <= NB

\* ------------------------------------------------ path-order utilities
ZeroVec == [c \in Cols |-> 0]
VecAdd(u, v) == [c \in DOMAIN u |-> u[c] + v[c]]
VecSub(u, v) == [c \in DOMAIN u |-> u[c] - v[c]]
is_smaller_or_equal(u, v) == \A c \in DOMAIN u : v[c] - u[c] >= 0
is_smaller(u, v) == \A c \in DOMAIN u : v[c] - u[c] > 0
is_equal(u, v) == \A c \in DOMAIN u : v[c] = u[c]

\* --------------------------------------------------------- row indexing
_path_index(typ, index) ==
    LET a == IF index > 0 THEN 0 ELSE 1
    IN  IF typ = BRANCH THEN <<a, Abs(index) - 1>>
        ELSE <<a, Abs(index) - 1 + NB>>

\* The carrying data as one record, so that a handler's statements can be
\* composed in order.
Data == [tp |-> train_paths, hbm |-> half_branch_map,
         hb |-> hb_between_branches, b2c |-> branch_to_cusp]

\* ------------------------------------------------------------ primitives
\* Lines 142-149, on array coordinates at = (side, row), ap = (side, row).
\* Statements act in order on the live arrays (numpy in-place updates).
\* AppendAt with the measure of the source assigned instead of accumulated.
AppendAt_Overwrite(D, at, ap) ==
    LET tp1 == [D.tp EXCEPT ![at[2]] = D.tp[ap[2]]]
        hbm1 == [D.hbm EXCEPT ![at[1]][at[2]] = D.hbm[ap[1]][ap[2]]]
        hb1 == [s \in Sides |-> [r \in Rows |-> [c \in Rows |->
                  IF c = at[2] THEN D.hb[s][r][c] + D.hb[s][r][ap[2]]
                  ELSE D.hb[s][r][c]]]]
        hb2 == [hb1 EXCEPT ![at[1]][at[2]] = hb1[ap[1]][ap[2]]]
    IN  [D EXCEPT !.tp = tp1, !.hbm = hbm1, !.hb = hb2]

\* AppendAt with the column of the source subtracted instead of added.
AppendAt_SubColumn(D, at, ap) ==
    LET tp1 == [D.tp EXCEPT ![at[2]] = VecAdd(D.tp[at[2]], D.tp[ap[2]])]
        hbm1 == [D.hbm EXCEPT ![at[1]][at[2]] = D.hbm[ap[1]][ap[2]]]
        hb1 == [s \in Sides |-> [r \in Rows |-> [c \in Rows |->
                  IF c = at[2] THEN D.hb[s][r][c] - D.hb[s][r][ap[2]]
                  ELSE D.hb[s][r][c]]]]
        hb2 == [hb1 EXCEPT ![at[1]][at[2]] = hb1[ap[1]][ap[2]]]
    IN  [D EXCEPT !.tp = tp1, !.hbm = hbm1, !.hb = hb2]

AppendAt(D, at, ap) ==
    LET tp1 == [D.tp EXCEPT ![at[2]] = VecAdd(D.tp[at[2]], D.tp[ap[2]])]
        hbm1 == [D.hbm EXCEPT ![at[1]][at[2]] = D.hbm[ap[1]][ap[2]]]
        hb1 == [s \in Sides |-> [r \in Rows |-> [c \in Rows |->
                  IF c = at[2] THEN D.hb[s][r][c] + D.hb[s][r][ap[2]]
                  ELSE D.hb[s][r][c]]]]
        hb2 == [hb1 EXCEPT ![at[1]][at[2]] = hb1[ap[1]][ap[2]]]
    IN  [D EXCEPT !.tp = tp1, !.hbm = hbm1, !.hb = hb2]

append(D, typ1, append_to_idx, typ2, appended_path_idx) ==
    AppendAt(D, _path_index(typ1, -append_to_idx),
                _path_index(typ2, -appended_path_idx))

add_to_hb_between_branches(D, typ1, add_to_idx, typ2, added_idx) ==
    LET add_to == _path_index(typ1, add_to_idx)
        added == _path_index(typ2, added_idx)
    IN  [D EXCEPT !.hb[add_to[1]][add_to[2]][added[2]] = @ + 1]

\* trim that also clears the end half-branch of the trimmed path.
trim_ResetsEndpoint(D, trim_from_idx, trimmed_path_idx) ==
    LET f == Abs(trim_from_idx) - 1
        t == Abs(trimmed_path_idx) - 1
        tp1 == [D.tp EXCEPT ![f] = VecSub(D.tp[f], D.tp[t])]
        hb1 == [s \in Sides |-> [r \in Rows |-> [c \in Rows |->
                  IF c = f THEN D.hb[s][r][c] - D.hb[s][r][t]
                  ELSE D.hb[s][r][c]]]]
    IN  [D EXCEPT !.tp = tp1, !.hb = hb1, !.hbm[END][f] = 0]

\* trim that updates hb_between_branches on the row side as well.
trim_RowSide(D, trim_from_idx, trimmed_path_idx) ==
    LET f == Abs(trim_from_idx) - 1
        t == Abs(trimmed_path_idx) - 1
        tp1 == [D.tp EXCEPT ![f] = VecSub(D.tp[f], D.tp[t])]
        hb1 == [s \in Sides |-> [r \in Rows |-> [c \in Rows |->
                  IF c = f THEN D.hb[s][r][c] - D.hb[s][r][t]
                  ELSE D.hb[s][r][c]]]]
        hb2 == [s \in Sides |-> [r \in Rows |-> [c \in Rows |->
                  IF r = f THEN hb1[s][r][c] - hb1[s][t][c]
                  ELSE hb1[s][r][c]]]]
    IN  [D EXCEPT !.tp = tp1, !.hb = hb2]

trim(D, trim_from_idx, trimmed_path_idx) ==
    LET f == Abs(trim_from_idx) - 1
        t == Abs(trimmed_path_idx) - 1
        tp1 == [D.tp EXCEPT ![f] = VecSub(D.tp[f], D.tp[t])]
        hb1 == [s \in Sides |-> [r \in Rows |-> [c \in Rows |->
                  IF c = f THEN D.hb[s][r][c] - D.hb[s][r][t]
                  ELSE D.hb[s][r][c]]]]
    IN  [D EXCEPT !.tp = tp1, !.hb = hb1]

ZeroRow == [c \in Rows |-> 0]

\* DeleteRows that clears the half-branch of +branch only.
DeleteRows_OneSide(D, branch) ==
    LET br == Abs(branch)
        p == to_index(br)
        n == to_index(-br)
    IN  [D EXCEPT !.tp[br - 1] = ZeroVec,
                  !.hbm[p[1]][p[2]] = 0,
                  !.hb[p[1]][p[2]] = ZeroRow,
                  !.hb[n[1]][n[2]] = ZeroRow]

\* Lines 231-236: the unconditional part of delete_branch_from_small.
DeleteRows(D, branch) ==
    LET br == Abs(branch)
        p == to_index(br)
        n == to_index(-br)
    IN  [D EXCEPT !.tp[br - 1] = ZeroVec,
                  !.hbm[p[1]][p[2]] = 0,
                  !.hbm[n[1]][n[2]] = 0,
                  !.hb[p[1]][p[2]] = ZeroRow,
                  !.hb[n[1]][n[2]] = ZeroRow]

\* Lines 252-255: self._cusp_paths are the cusp rows of train_paths.
RECURSIVE DeleteCusps(_, _, _)
DeleteCusps(D, branch, side) ==
    IF side > 1 THEN D
    ELSE LET cusp_idx == D.b2c[side][Abs(branch) - 1]
             D1 == [D EXCEPT !.tp[NB + cusp_idx] = ZeroVec,
                             !.b2c[side][Abs(branch) - 1] = 0]
         IN  DeleteCusps(D1, branch, side + 1)

is_left_turning(branch) ==
    outgoing_branch(branch_endpoint(branch), 0) = -branch

\* Lines 227-261.  Result: the data after the call and how the call ended.
delete_branch_from_small(D, branch) ==
    LET D1 == DeleteRows(D, branch)
    IN  IF ~T.trivalent THEN [data |-> D1, outcome |-> "AssertionError"]
        ELSE IF Abs(branch) \notin T.collapsible
             THEN [data |-> D1, outcome |-> "AssertionError"]
        ELSE IF is_left_turning(branch)
             THEN [data |-> DeleteCusps(D1, branch, 0), outcome |-> "ok"]
        ELSE [data |-> D1, outcome |-> "ok"]

\* ------------------------------------------------------- shortest paths
Path(D, idx) == D.tp[Abs(idx) - 1]

\* Lines 406-413: positions (1-based) of the candidates that are <= every
\* candidate; the for loop breaks at the first one.
MinPositions(D, indices) ==
    {i \in 1 .. Len(indices) :
        \A j \in 1 .. Len(indices) :
            is_smaller_or_equal(Path(D, indices[i]), Path(D, indices[j]))}

FirstOf(S) == CHOOSE i \in S : \A j \in S : i <= j

RECURSIVE EqualFrom(_, _, _, _)
\* Lines 416-418: the candidates after position k-1 that equal path.
EqualFrom(D, indices, path, k) ==
    IF k > Len(indices) THEN <<>>
    ELSE (IF is_equal(path, Path(D, indices[k]))
          THEN <<indices[k]>> ELSE <<>>)
         \o EqualFrom(D, indices, path, k + 1)

\* shortest_paths that returns the first minimal index only.
shortest_paths_FirstOnly(D, indices) ==
    LET M == MinPositions(D, indices)
    IN  IF M = {} THEN [outcome |-> "ValueError", ls |-> <<>>]
        ELSE [outcome |-> "ok", ls |-> <<indices[FirstOf(M)]>>]

\* Lines 394-419 (indices(i) read as indices[i]).
shortest_paths(D, indices) ==
    LET M == MinPositions(D, indices)
    IN  IF M = {} THEN [outcome |-> "ValueError", ls |-> <<>>]
        ELSE LET i == FirstOf(M)
             IN  [outcome |-> "ok",
                  ls |-> <<indices[i]>> \o
                         EqualFrom(D, indices, Path(D, indices[i]), i + 1)]

\* ---------------------------------------------------------------- isotopy
\* A cusp path is referred to by the signed index of its row in the
\* combined row space (cusp k sits at row cusp_index_offset + k).
CuspPathIdx(k) == NB + k + 1

RECURSIVE CuspIndicesFrom(_, _, _)
CuspIndicesFrom(D, switch, i) ==
    IF i >= num_outgoing_branches(switch) - 1 THEN <<>>
    ELSE LET br == outgoing_branch(switch, i)
             p == to_index(br)
         IN  <<CuspPathIdx(D.b2c[p[1]][p[2]])>>
             \o CuspIndicesFrom(D, switch, i + 1)

outgoing_cusp_path_indices_in_small_tt(D, switch) ==
    CuspIndicesFrom(D, switch, 0)

outgoing_path_indices_in_small_tt(D, switch) ==
    outgoing_branches(switch) \o
    outgoing_cusp_path_indices_in_small_tt(D, switch)

RECURSIVE AppendLoop(_, _, _, _, _)
\* Lines 312-316: append(-br, min_path_idx) for the paths at -switch.
AppendLoop(D, neg, k, switch, min_path_idx) ==
    IF k > Len(neg) THEN [data |-> D, outcome |-> "ok"]
    ELSE LET br == neg[k]
         IN  IF is_branch(br) /\ branch_endpoint(br) = -switch
             THEN [data |-> D, outcome |-> "AssertionError"]
             ELSE AppendLoop(AppendAt(D, to_index(br), to_index(-min_path_idx)),
                             neg, k + 1, switch, min_path_idx)

RECURSIVE TrimLoop(_, _, _, _)
\* Lines 318-323.
TrimLoop(D, outp, k, min_path_idx) ==
    IF k > Len(outp) THEN D
    ELSE LET br == outp[k]
         IN  TrimLoop(IF br # min_path_idx
                      THEN trim(D, -br, -min_path_idx) ELSE D,
                      outp, k + 1, min_path_idx)

\* Line 325: br is the loop variable left by the for loop of line 318.
TrimLast(D, outp) == LET br == outp[Len(outp)] IN trim(D, -br, -br)

cusp_row(switch, pos) == NB + T.cusp[outgoing_branch(switch, pos)]

\* Lines 345-373, tt read as small_tt, idx/i as the position that
\* shortest_paths finds first, sortest_path as shortest_path.  paths[i] is
\* a view of a row of train_paths, so each statement reads the live row.
FixTwoOutgoing(D, switch, branch) ==
    IF outgoing_branch(switch, 1) # branch
    THEN [data |-> D, outcome |-> "AssertionError"]
    ELSE
    LET b_left == outgoing_branch(switch, 0)
        b_right == outgoing_branch(switch, 1)
        cr == cusp_row(switch, 0)
        paths == <<Abs(b_left), Abs(b_right), cr + 1>>
        M == MinPositions(D, paths)
    IN  IF M = {} THEN [data |-> D, outcome |-> "ValueError"]
        ELSE
        LET r == paths[FirstOf(M)] - 1
            neg_branch == outgoing_branch(-switch, 0)
            nb_ == Abs(neg_branch) - 1
            tp1 == [D.tp EXCEPT ![Abs(b_left) - 1] = VecSub(@, D.tp[r])]
            tp2 == [tp1 EXCEPT ![Abs(b_right) - 1] = VecSub(@, tp1[r])]
            tp3 == [tp2 EXCEPT ![cr] = VecSub(@, tp2[r])]
            tp4 == [tp3 EXCEPT ![nb_] = VecAdd(@, tp3[r])]
            end_hb == D.hbm[END][cr]
            n == to_index(neg_branch)
        IN  [data |-> [D EXCEPT !.tp = tp4, !.hbm[n[1]][n[2]] = end_hb],
             outcome |-> "ok"]

\* isotope_switch_as_far_as_possible that retires the last outgoing path
\* before it looks for the shortest one.
isotope_TrimFirst(D, switch, branch) ==
    LET outgoing_path_indices == outgoing_path_indices_in_small_tt(D, switch)
        D0 == TrimLast(D, outgoing_path_indices)
        sp == shortest_paths(D0, outgoing_path_indices)
    IN  IF sp.outcome # "ok" THEN [data |-> D0, outcome |-> sp.outcome]
        ELSE
        LET min_path_idx == sp.ls[1]
            neg == outgoing_path_indices_in_small_tt(D0, -switch)
            A == AppendLoop(D0, neg, 1, switch, min_path_idx)
        IN  IF A.outcome # "ok" THEN A
            ELSE
            LET D2 == TrimLoop(A.data, outgoing_path_indices, 1, min_path_idx)
            IN  IF num_outgoing_branches(switch) > 2
                THEN [data |-> D2, outcome |-> "NotImplementedError"]
                ELSE IF num_outgoing_branches(switch) = 2
                THEN FixTwoOutgoing(D2, switch, branch)
                ELSE [data |-> D2, outcome |-> "ok"]

\* Lines 296-392.  min_path_idx is read as min_path_indices[0], the 2-argument
\* append as the append of the two paths, and line 330 as
\* num_outgoing_branches(switch) > 2.  branch is the isotoped branch.
isotope_switch_as_far_as_possible(D, switch, branch) ==
    LET outgoing_path_indices == outgoing_path_indices_in_small_tt(D, switch)
        sp == shortest_paths(D, outgoing_path_indices)
    IN  IF sp.outcome # "ok" THEN [data |-> D, outcome |-> sp.outcome]
        ELSE
        LET min_path_idx == sp.ls[1]
            neg == outgoing_path_indices_in_small_tt(D, -switch)
            A == AppendLoop(D, neg, 1, switch, min_path_idx)
        IN  IF A.outcome # "ok" THEN A
            ELSE
            LET D2 == TrimLast(TrimLoop(A.data, outgoing_path_indices, 1,
                                        min_path_idx),
                               outgoing_path_indices)
            IN  IF num_outgoing_branches(switch) > 2
                THEN [data |-> D2, outcome |-> "NotImplementedError"]
                ELSE IF num_outgoing_branches(switch) = 2
                THEN FixTwoOutgoing(D2, switch, branch)
                ELSE [data |-> D2, outcome |-> "ok"]

\* ------------------------------------------------------------ the states
NoOp == [op |-> "init", typ1 |-> "-", a |-> 0, typ2 |-> "-", b |-> 0,
         inp |-> <<>>, outcome |-> "ok", result |-> <<>>]

B2CInit(t) == [s \in Sides |-> [r \in 0 .. (Tracks[t].nb - 1) |->
                 Tracks[t].cusp[IF s = 0 THEN r + 1 ELSE -(r + 1)]]]

HbmInit(t) == [s \in Sides |-> [r \in 0 .. (Tracks[t].nb + Tracks[t].nc - 1) |->
                 IF r < Tracks[t].nb
                 THEN (IF s = START THEN r + 1 ELSE -(r + 1)) ELSE 0]]

HbInit(t) == [s \in Sides |->
                [r \in 0 .. (Tracks[t].nb + Tracks[t].nc - 1) |->
                   [c \in 0 .. (Tracks[t].nb + Tracks[t].nc - 1) |-> 0]]]

\* identity_map(T): identity rows for the branches, zero cusp paths,
\* half-branches mapped to themselves, all positions 0.
identity_map(t) ==
    /\ tt = t
    /\ train_paths = [r \in 0 .. (Tracks[t].nb + Tracks[t].nc - 1) |->
                        [c \in 0 .. (Tracks[t].nb - 1) |->
                           IF r = c THEN 1 ELSE 0]]
    /\ half_branch_map = HbmInit(t)
    /\ hb_between_branches = HbInit(t)
    /\ branch_to_cusp = B2CInit(t)
    /\ last = NoOp
    /\ pre = [tp |-> train_paths, hbm |-> half_branch_map,
              hb |-> hb_between_branches, last |-> NoOp,
              tp0 |-> train_paths, hbm0 |-> half_branch_map]
    /\ hist = [tpOK |-> TRUE, hbOK |-> TRUE]
    /\ steps = 0

\* CarryingMap(...) built directly from its components: any measure rows
\* with entries 0..maxv over ncols large branches.
Construct(t, ncols, maxv) ==
    /\ tt = t
    /\ train_paths \in [0 .. (Tracks[t].nb + Tracks[t].nc - 1) ->
                          [0 .. (ncols - 1) -> 0 .. maxv]]
    /\ half_branch_map = HbmInit(t)
    /\ hb_between_branches = HbInit(t)
    /\ branch_to_cusp = B2CInit(t)
    /\ last = NoOp
    /\ pre = [tp |-> train_paths, hbm |-> half_branch_map,
              hb |-> hb_between_branches, last |-> NoOp,
              tp0 |-> train_paths, hbm0 |-> half_branch_map]
    /\ hist = [tpOK |-> TRUE, hbOK |-> TRUE]
    /\ steps = 0

\* One call: the arrays become those of D2, the call is recorded in last,
\* the arrays before the call in pre (with the call before it and the
\* measures and half-branch map that one started from).
Commit(D2, rec, h) ==
    /\ train_paths' = D2.tp
    /\ half_branch_map' = D2.hbm
    /\ hb_between_branches' = D2.hb
    /\ branch_to_cusp' = D2.b2c
    /\ last' = rec
    /\ pre' = [tp |-> train_paths, hbm |-> half_branch_map,
               hb |-> hb_between_branches, last |-> last,
               tp0 |-> pre.tp, hbm0 |-> pre.hbm]
    /\ hist' = h
    /\ steps' = steps + 1
    /\ UNCHANGED tt

Kinds == IF T.nc > 0 THEN {BRANCH, CUSP} ELSE {BRANCH}
Idx(typ) == IF typ = BRANCH THEN SignedBranches ELSE SignedCusps
PosIdx(typ) == {i \in Idx(typ) : i > 0}
SignedPaths == {p \in (-NR) .. NR : p # 0}
PosPaths == 1 .. NR

AppendCall(typ1, i, typ2, j) ==
    Commit(append(Data, typ1, i, typ2, j),
           [NoOp EXCEPT !.op = "append", !.typ1 = typ1, !.a = i,
                        !.typ2 = typ2, !.b = j], hist)

AddCall(typ1, i, typ2, j) ==
    Commit(add_to_hb_between_branches(Data, typ1, i, typ2, j),
           [NoOp EXCEPT !.op = "add_to_hb_between_branches", !.typ1 = typ1,
                        !.a = i, !.typ2 = typ2, !.b = j], hist)

DeleteCall(b) ==
    LET R == delete_branch_from_small(Data, b)
    IN  Commit(R.data, [NoOp EXCEPT !.op = "delete_branch_from_small",
                                    !.a = b, !.outcome = R.outcome], hist)

\* The caller's obligations of a direct trim, recorded when not met.
TpGuard(f, t) == is_smaller_or_equal(train_paths[Abs(t) - 1],
                                     train_paths[Abs(f) - 1])
HbGuard(f, t) == \A s \in Sides, r \in Rows :
                    hb_between_branches[s][r][Abs(t) - 1]
                      <= hb_between_branches[s][r][Abs(f) - 1]

TrimCall(f, t) ==
    Commit(trim(Data, f, t),
           [NoOp EXCEPT !.op = "trim", !.a = f, !.b = t],
           [tpOK |-> hist.tpOK /\ TpGuard(f, t),
            hbOK |-> hist.hbOK /\ HbGuard(f, t)])

IsotopeCall(sw, branch) ==
    LET R == isotope_switch_as_far_as_possible(Data, sw, branch)
    IN  Commit(R.data, [NoOp EXCEPT !.op = "isotope", !.a = sw, !.b = branch,
                                    !.outcome = R.outcome], hist)

ShortestCall(indices) ==
    LET R == shortest_paths(Data, indices)
    IN  Commit(Data, [NoOp EXCEPT !.op = "shortest_paths", !.inp = indices,
                                  !.outcome = R.outcome, !.result = R.ls],
               hist)

\* ----------------------------------------------- primitives from identity
Init == \E t \in {"circle", "tri"} : identity_map(t)

AppendOp == /\ steps < MaxSteps
            /\ \E typ1 \in Kinds, typ2 \in Kinds :
                 \E i \in Idx(typ1), j \in Idx(typ2) : AppendCall(typ1, i, typ2, j)

AddToHbOp == /\ steps < MaxSteps
           /\ \E typ1 \in Kinds, typ2 \in Kinds :
                \E i \in Idx(typ1), j \in Idx(typ2) : AddCall(typ1, i, typ2, j)

DeleteOp == /\ steps < MaxSteps
          /\ \E b \in SignedBranches : DeleteCall(b)

TrimOp == /\ steps < MaxSteps
        /\ \E f \in SignedPaths, t \in SignedPaths : TrimCall(f, t)

Next == AppendOp \/ AddToHbOp \/ DeleteOp \/ TrimOp

Spec == Init /\ [][Next]_vars

\* ------------------------------------------------------------ C1, C2, C8
\* C1: append(BRANCH, d, BRANCH, s) with distinct branch rows d, s sets
\* train_paths[d] to the componentwise sum of the old rows d and s and
\* leaves row s and every other row of train_paths unchanged.
C1_AppendSums ==
    (last.op = "append" /\ last.typ1 = BRANCH /\ last.typ2 = BRANCH
       /\ Abs(last.a) # Abs(last.b))
    => LET d == Abs(last.a) - 1
           s == Abs(last.b) - 1
       IN  /\ train_paths[d] = VecAdd(pre.tp[d], pre.tp[s])
           /\ \A r \in Rows \ {d} : train_paths[r] = pre.tp[r]

C1_Witness ==
    /\ last.op = "append" /\ last.typ1 = BRANCH /\ last.typ2 = BRANCH
    /\ Abs(last.a) # Abs(last.b)
    /\ pre.tp[Abs(last.a) - 1] # ZeroVec
    /\ pre.tp[Abs(last.b) - 1] # ZeroVec
    /\ train_paths[Abs(last.a) - 1] # pre.tp[Abs(last.a) - 1]

\* C2: after append(BRANCH, to, BRANCH, from) on distinct branch rows the
\* END entry of `to` in half_branch_map equals that of `from`; the trim(to,
\* from) that follows brings train_paths[to] back to its value before the
\* append and leaves half_branch_map as the append left it, so an endpoint
\* of `to` that differed from that of `from` is not restored.
AppendThenTrim ==
    /\ last.op = "trim" /\ pre.last.op = "append"
    /\ pre.last.typ1 = BRANCH /\ pre.last.typ2 = BRANCH
    /\ pre.last.a > 0 /\ pre.last.b > 0 /\ pre.last.a # pre.last.b
    /\ last.a = pre.last.a /\ last.b = pre.last.b

C2_TrimDoesNotInvertAppend ==
    AppendThenTrim
    => LET to == last.a - 1
           from == last.b - 1
       IN  /\ pre.hbm[END][to] = pre.hbm[END][from]
           /\ train_paths[to] = pre.tp0[to]
           /\ half_branch_map = pre.hbm
           /\ (pre.hbm0[END][to] # pre.hbm0[END][from]
                 => half_branch_map[END][to] # pre.hbm0[END][to])

C2_Witness ==
    /\ AppendThenTrim
    /\ pre.hbm0[END][last.a - 1] # pre.hbm0[END][last.b - 1]
    /\ half_branch_map[END][last.a - 1] # pre.hbm0[END][last.a - 1]
    /\ pre.tp[last.a - 1] # pre.tp0[last.a - 1]

RECURSIVE SeqsUpTo(_, _)
SeqsUpTo(S, n) ==
    IF n = 0 THEN {<<>>}
    ELSE LET P == SeqsUpTo(S, n - 1)
         IN  P \cup {Append(q, x) : q \in {q \in P : Len(q) = n - 1}, x \in S}

InitSP == Construct("tri", 2, MaxVal)

ShortestOp == /\ steps < 1
              /\ \E indices \in SeqsUpTo(SignedPaths, MaxLen) :
                    ShortestCall(indices)

NextSP == ShortestOp

SpecSP == InitSP /\ [][NextSP]_vars

\* C3: if some index of the list has a measure vector <= that of every
\* index of the list, shortest_paths returns exactly the input indices whose
\* vector equals that minimal vector, ties included, in input order;
\* otherwise it raises the no-minimum error and returns nothing.
InVec(k) == train_paths[Abs(last.inp[k]) - 1]

HasMinimum ==
    \E i \in 1 .. Len(last.inp) :
       \A j \in 1 .. Len(last.inp) : \A c \in Cols : InVec(i)[c] <= InVec(j)[c]

TiePositions ==
    {k \in 1 .. Len(last.inp) :
        /\ InVec(k) = InVec(CHOOSE i \in 1 .. Len(last.inp) :
                       \A j \in 1 .. Len(last.inp) :
                          \A c \in Cols : InVec(i)[c] <= InVec(j)[c])}

NthTie(n) == CHOOSE k \in TiePositions :
                Cardinality({q \in TiePositions : q < k}) = n - 1

C3_ShortestPaths ==
    last.op = "shortest_paths"
    => IF HasMinimum
       THEN /\ last.outcome = "ok"
            /\ Len(last.result) = Cardinality(TiePositions)
            /\ \A n \in 1 .. Len(last.result) :
                  last.result[n] = last.inp[NthTie(n)]
       ELSE /\ last.outcome = "ValueError"
            /\ last.result = <<>>

C3_Witness ==
    /\ last.op = "shortest_paths" /\ last.outcome = "ok"
    /\ Len(last.inp) = 3 /\ Len(last.result) = 2
    /\ Abs(last.inp[1]) # Abs(last.inp[3])
    /\ InVec(2) # InVec(1)
    /\ last.result = <<last.inp[1], last.inp[3]>>

\* ------------------------------------------- deleting a branch, trivalent
InitDel == Construct("theta", 2, MaxVal)

DeleteTheta == /\ steps < MaxStepsDel
               /\ \E b \in SignedBranches : DeleteCall(b)

NextDel == DeleteTheta

SpecDel == InitDel /\ [][NextDel]_vars

\* C4: after delete_branch_from_small(b), for either sign of b, row |b|-1
\* of train_paths is the zero vector and both half_branch_map entries of
\* the branch are 0.
C4_DeleteZeroes ==
    last.op = "delete_branch_from_small"
    => /\ \A c \in Cols : train_paths[Abs(last.a) - 1][c] = 0
       /\ half_branch_map[START][Abs(last.a) - 1] = 0
       /\ half_branch_map[END][Abs(last.a) - 1] = 0

C4_Witness ==
    /\ last.op = "delete_branch_from_small" /\ last.outcome = "ok"
    /\ last.a < 0
    /\ \E c \in Cols : pre.tp[Abs(last.a) - 1][c] # 0
    /\ pre.hbm[START][Abs(last.a) - 1] # 0
    /\ pre.hbm[END][Abs(last.a) - 1] # 0

\* C7: delete_branch_from_small on a collapsible, right-turning branch of a
\* trivalent small track ends in the unsupported-configuration outcome.
C7_RightTurningUnsupported ==
    (/\ last.op = "delete_branch_from_small"
     /\ T.trivalent /\ Abs(last.a) \in T.collapsible
     /\ outgoing_branch(branch_endpoint(last.a), 0) # -last.a)
    => last.outcome = "NotImplementedError"

\* ------------------------------------------------------ isotopy, one call
InitIso == \E t \in {"loop", "three", "theta"} : Construct(t, 2, MaxValIso)

IsotopeOne == /\ steps < 1
              /\ \E sw \in Switches, branch \in SignedBranches :
                    IsotopeCall(sw, branch)

NextIso == IsotopeOne

SpecIso == InitIso /\ [][NextIso]_vars

\* C5: isotope_switch_as_far_as_possible on a switch with exactly two
\* outgoing branches of equal measure completes without error; afterwards
\* the minimal outgoing branches have the zero vector and the branches
\* outgoing at -switch have grown by exactly the minimal vector.
TwoEqualOutgoing ==
    /\ last.op = "isotope"
    /\ num_outgoing_branches(last.a) = 2
    /\ pre.tp[Abs(outgoing_branch(last.a, 0)) - 1]
         = pre.tp[Abs(outgoing_branch(last.a, 1)) - 1]

C5_IsotopeTwoEqual ==
    TwoEqualOutgoing
    => /\ last.outcome = "ok"
       /\ \A p \in 0 .. 1 :
             train_paths[Abs(outgoing_branch(last.a, p)) - 1] = ZeroVec
       /\ \A k \in 1 .. num_outgoing_branches(-last.a) :
             LET nb_ == Abs(outgoing_branches(-last.a)[k]) - 1
             IN  train_paths[nb_]
                   = VecAdd(pre.tp[nb_],
                            pre.tp[Abs(outgoing_branch(last.a, 0)) - 1])

\* C6: isotope_switch_as_far_as_possible on a switch with three or more
\* outgoing branches fails with the unsupported-configuration error.
C6_ThreeOutgoingUnsupported ==
    (last.op = "isotope" /\ num_outgoing_branches(last.a) >= 3)
    => last.outcome = "NotImplementedError"

\* --------------------------- primitives from identity, two-branch track
InitHb == identity_map("circle")

AppendHb == /\ steps < MaxStepsHb
            /\ \E i \in SignedBranches, j \in SignedBranches :
                  AppendCall(BRANCH, i, BRANCH, j)

AddHb == /\ steps < MaxStepsHb
         /\ \E i \in SignedBranches, j \in SignedBranches :
               AddCall(BRANCH, i, BRANCH, j)

DeleteHb == /\ steps < MaxStepsHb
            /\ \E b \in SignedBranches : DeleteCall(b)

TrimHb == /\ steps < MaxStepsHb
          /\ \E f \in PosPaths, t \in PosPaths : TrimCall(f, t)

NextHb == AppendHb \/ AddHb \/ DeleteHb \/ TrimHb

SpecHb == InitHb /\ [][NextHb]_vars

HbNonNegative ==
    \A s \in Sides, r \in Rows, c \in Rows : hb_between_branches[s][r][c] >= 0

\* C10 as stated: every entry of hb_between_branches is >= 0 after any
\* calls of append, add_to_hb_between_branches, delete_branch_from_small
\* and trim from identity_map(T), each trim(from, sub) made only when
\* train_paths[sub] <= train_paths[from].
C10_HbNonNegative_Original == hist.tpOK => HbNonNegative

\* C10 amended: ... each trim(from, sub) made only when train_paths[sub] <=
\* train_paths[from] and column sub of hb_between_branches is <= column
\* from on both sides.
C10_HbNonNegative == (hist.tpOK /\ hist.hbOK) => HbNonNegative

C10_Witness ==
    /\ last.op = "trim" /\ hist.tpOK /\ hist.hbOK
    /\ Abs(last.a) # Abs(last.b)
    /\ \E s \in Sides, r \in Rows :
          hb_between_branches[s][r][Abs(last.a) - 1]
            < pre.hb[s][r][Abs(last.a) - 1]

\* ---------------------------------------- all operations from identity
InitId == identity_map("loop")

AppendId == /\ steps < MaxStepsId
            /\ \E typ1 \in Kinds, typ2 \in Kinds :
                 \E i \in PosIdx(typ1), j \in PosIdx(typ2) :
                    AppendCall(typ1, i, typ2, j)

AddId == /\ steps < MaxStepsId
         /\ \E typ1 \in Kinds, typ2 \in Kinds :
              \E i \in PosIdx(typ1), j \in PosIdx(typ2) :
                 AddCall(typ1, i, typ2, j)

DeleteId == /\ steps < MaxStepsId
            /\ \E b \in PosIdx(BRANCH) : DeleteCall(b)

TrimId == /\ steps < MaxStepsId
          /\ \E f \in PosPaths, t \in PosPaths : TrimCall(f, t)

IsotopeId == /\ steps < MaxStepsId
             /\ \E sw \in Switches :
                  \E branch \in {outgoing_branch(sw, p) :
                                   p \in 0 .. (num_outgoing_branches(sw) - 1)} :
                     IsotopeCall(sw, branch)

NextId == AppendId \/ AddId \/ DeleteId \/ TrimId \/ IsotopeId

SpecId == InitId /\ [][NextId]_vars

\* C9: every entry of train_paths is >= 0 after any calls of append,
\* add_to_hb_between_branches, delete_branch_from_small,
\* isotope_switch_as_far_as_possible and trim from identity_map(T), each
\* direct trim(from, sub) made only when train_paths[sub] <= train_paths[from].
C9_TrainPathsNonNegative ==
    hist.tpOK => \A r \in Rows, c \in Cols : train_paths[r][c] >= 0

\* ------------------------------------------------- isotopy, failing calls
InitFail == Construct("selfloop", 2, MaxValFail)

IsotopeFail == /\ steps < MaxStepsFail
               /\ \E sw \in Switches, branch \in SignedBranches :
                     IsotopeCall(sw, branch)

NextFail == IsotopeFail

SpecFail == InitFail /\ [][NextFail]_vars

\* The arrays the last call started from (isotopy leaves branch_to_cusp).
PreData == [tp |-> pre.tp, hbm |-> pre.hbm, hb |-> pre.hb,
            b2c |-> branch_to_cusp]

ArraysAsBefore ==
    /\ train_paths = pre.tp
    /\ half_branch_map = pre.hbm
    /\ hb_between_branches = pre.hb

\* The call failed at line 306: its outgoing paths had no minimum.
FailedNoMinimum ==
    /\ last.op = "isotope"
    /\ shortest_paths(PreData,
         outgoing_path_indices_in_small_tt(PreData, last.a)).outcome
         = "ValueError"

\* The call failed at line 315: a branch at -switch ends at -switch.
FailedSelfLoop ==
    /\ last.op = "isotope" /\ ~FailedNoMinimum
    /\ last.outcome = "AssertionError"
    /\ \E k \in 1 .. num_outgoing_branches(-last.a) :
          branch_endpoint(outgoing_branches(-last.a)[k]) = -last.a

\* The call failed at line 331.
FailedUnsupported ==
    last.op = "isotope" /\ last.outcome = "NotImplementedError"

\* C11 as stated: whenever isotope_switch_as_far_as_possible fails (no
\* minimum, self-loop assertion, more than two outgoing branches),
\* train_paths, half_branch_map and hb_between_branches equal their values
\* before the call.
C11_FailureLeavesArrays_Original ==
    (FailedNoMinimum \/ FailedSelfLoop \/ FailedUnsupported) => ArraysAsBefore

\* C11 amended: whenever isotope_switch_as_far_as_possible fails with the
\* no-minimum error of its shortest_paths call over the outgoing paths,
\* the three arrays equal their values before the call.
C11_NoMinimumLeavesArrays == FailedNoMinimum => ArraysAsBefore

C11_Witness ==
    /\ FailedNoMinimum /\ last.outcome = "ValueError"
    /\ num_outgoing_branches(-last.a) >= 1
    /\ \E r \in Rows : train_paths[r] # ZeroVec
    /\ ArraysAsBefore

====
